---- MODULE Spec2Model ----
(***************************************************************************)
(* The benchmark entry store of go-continuous-benchmarking                 *)
(* (internal/storage + internal/model): the catalog branches.json, the     *)
(* per-branch logs data/<branch>.json, the aggregate log data/releases.json,*)
(* the tag map data/release_tags.json and metadata.json, with the exported *)
(* operations of Storage.                                                  *)
(*                                                                         *)
(* Strings that the code inspects character by character (branch names,    *)
(* file names) are tuples of one-character strings.  A store operation is  *)
(* a pure operator from a store value to a result [st, err, ...] or        *)
(* [v, err]; an action applies one operation to the store on disk.         *)
(***************************************************************************)
EXTENDS Integers, Sequences, FiniteSets, TLC

VARIABLES
    branches,   \* branches.json: [exists, kind, names, ro]
    files,      \* the directory data/: file name (without ".json") -> content
    rofiles,    \* file names of data/ that the file system refuses to write
    metadata,   \* metadata.json: [exists, kind, json, ro]
    last,       \* the last call: operation, arguments, results, store before it
    budget,     \* number of calls this run may still make
    names,      \* the branch names the callers of this run use
    pool,       \* the entries the callers of this run submit
    ops,        \* the operations the callers of this run use
    procs       \* concurrent invocations of AppendEntries: id -> position, memory

vars ==
    <<branches, files, rofiles, metadata, last, budget, names, pool, ops, procs>>

-----------------------------------------------------------------------------
(* Bounds *)

\* calls per run (a scenario may grant more, or one fewer)
MaxCalls == 3

\* entries per AppendEntries batch
MaxBatch == 2

\* largest retention limit (maxItems) the callers pass
MaxRetention == 2

\* longest name given to IsSemanticVersionTag
MaxNameLen == 7

\* the retention limits the callers pass; 0 means "keep all"
MaxItemsChoices == 0..MaxRetention

-----------------------------------------------------------------------------
(* Strings *)

\* The characters used, in ascending byte order (Go compares strings bytewise).
ByteOrder ==
    << "-", ".", "/", "0", "1", "2", "3", "9", ":", "Z", "_",
       "a", "b", "c", "d", "e", "g", "i", "l", "m", "n", "o", "p", "r", "s",
       "t", "v", "x" >>

Byte(c) == CHOOSE i \in 1..Len(ByteOrder) : ByteOrder[i] = c

RECURSIVE StrLessFrom(_, _, _)
StrLessFrom(a, b, i) ==
    IF i > Len(b) THEN FALSE
    ELSE IF i > Len(a) THEN TRUE
    ELSE IF a[i] # b[i] THEN Byte(a[i]) < Byte(b[i])
    ELSE StrLessFrom(a, b, i + 1)

\* a < b on Go strings
StrLess(a, b) == StrLessFrom(a, b, 1)

ReleasesVirtualBranch == << "r", "e", "l", "e", "a", "s", "e", "s" >>

releaseTagsFileName ==
    << "r", "e", "l", "e", "a", "s", "e", "_", "t", "a", "g", "s" >>

IsDigit(c) == c \in {"0", "1", "2", "3", "4", "5", "6", "7", "8", "9"}

\* index just after the longest run of digits of s that starts at i
RECURSIVE DigitsEnd(_, _)
DigitsEnd(s, i) ==
    IF i <= Len(s) /\ IsDigit(s[i]) THEN DigitsEnd(s, i + 1) ELSE i

\* \d+\. matched at i: the index after the dot, or 0 when there is no match
DigitsDot(s, i) ==
    LET j == DigitsEnd(s, i)
    IN IF j > i /\ j <= Len(s) /\ s[j] = "." THEN j + 1 ELSE 0

\* ^v?\d+\.\d+\.\d+$
semverReAnchored(name) ==
    LET s == IF Len(name) >= 1 /\ name[1] = "v" THEN 2 ELSE 1
        a == DigitsDot(name, s)
        b == IF a = 0 THEN 0 ELSE DigitsDot(name, a)
    IN b # 0 /\ DigitsEnd(name, b) > b /\ DigitsEnd(name, b) = Len(name) + 1

\* ^v?\d+\.\d+\.\d+ (not anchored at the end)
semverRe(name) ==
    LET s == IF Len(name) >= 1 /\ name[1] = "v" THEN 2 ELSE 1
        a == DigitsDot(name, s)
        b == IF a = 0 THEN 0 ELSE DigitsDot(name, a)
    IN b # 0 /\ DigitsEnd(name, b) > b

IsSemanticVersionTag(name) == semverRe(name)

sanitizeBranchName(branch) ==
    [i \in 1..Len(branch) |->
        IF branch[i] \in {"/", "\\", ":", "*", "?", "\"", "<", ">", "|"}
        THEN "_" ELSE branch[i]]

branchDataPath(branch) == sanitizeBranchName(branch)

releaseTagsPath == releaseTagsFileName

-----------------------------------------------------------------------------
(* Record model *)

\* time.Parse(time.RFC3339, s) on the commit dates used: the instant in
\* epoch milliseconds, or an error
ParseRFC3339(s) ==
    CASE s = "1970-01-01T00:00:01Z"      -> [ok |-> TRUE, ms |-> 1000]
      [] s = "1970-01-01T01:00:01+01:00" -> [ok |-> TRUE, ms |-> 1000]
      [] s = "1970-01-01T00:00:02Z"      -> [ok |-> TRUE, ms |-> 2000]
      [] s = "1970-01-01T00:00:03Z"      -> [ok |-> TRUE, ms |-> 3000]
      [] OTHER                           -> [ok |-> FALSE, ms |-> 0]

RunParams(cpu, goos, goarch, goVersion, cgo) ==
    [CPU |-> cpu, GOOS |-> goos, GOARCH |-> goarch, GoVersion |-> goVersion,
     CGO |-> cgo]

BenchmarkEntry(sha, commitDate, date, params, value) ==
    [Commit |-> [SHA |-> sha, Date |-> commitDate],
     Date |-> date,
     Params |-> params,
     Benchmarks |-> << [Name |-> "BenchmarkA", Value |-> value] >>]

EntryKeyOmitsGoVersion(e) ==
    [SHA |-> e.Commit.SHA,
     Params |-> [e.Params EXCEPT !.GoVersion = ""]]

EntryKey(e) == [SHA |-> e.Commit.SHA, Params |-> e.Params]

-----------------------------------------------------------------------------
(* Sorting.  sort.SliceStable on fewer than 20 elements is one insertion   *)
(* sort: element i moves left while less(it, its left neighbour).          *)

lessByDateField(ei, ej) == ei.Date < ej.Date

\* the less function of sortByCommitDate
lessByCommitDate(ei, ej) ==
    LET ti == ParseRFC3339(ei.Commit.Date)
        tj == ParseRFC3339(ej.Commit.Date)
    IN IF ~ti.ok \/ ~tj.ok
       THEN ei.Date < ej.Date
       ELSE ti.ms < tj.ms

\* position at which x, placed at index j of s \o <<x>>, comes to rest
RECURSIVE entryRestsAt(_, _, _)
entryRestsAt(s, x, j) ==
    IF j > 1 /\ lessByCommitDate(x, s[j - 1])
    THEN entryRestsAt(s, x, j - 1)
    ELSE j

InsertAt(s, x, j) == SubSeq(s, 1, j - 1) \o << x >> \o SubSeq(s, j, Len(s))

RECURSIVE sortEntriesFrom(_, _)
sortEntriesFrom(done, rest) ==
    IF rest = << >> THEN done
    ELSE sortEntriesFrom(
             InsertAt(done, Head(rest), entryRestsAt(done, Head(rest), Len(done) + 1)),
             Tail(rest))

sortByCommitDate(entries) == sortEntriesFrom(<< >>, entries)

\* the less function of sortBranches
lessPlain(bi, bj) == StrLess(bi, bj)

lessBranches(bi, bj) ==
    IF bi = ReleasesVirtualBranch THEN TRUE
    ELSE IF bj = ReleasesVirtualBranch THEN FALSE
    ELSE StrLess(bi, bj)

RECURSIVE branchRestsAt(_, _, _)
branchRestsAt(s, x, j) ==
    IF j > 1 /\ lessBranches(x, s[j - 1])
    THEN branchRestsAt(s, x, j - 1)
    ELSE j

RECURSIVE sortBranchesFrom(_, _)
sortBranchesFrom(done, rest) ==
    IF rest = << >> THEN done
    ELSE sortBranchesFrom(
             InsertAt(done, Head(rest), branchRestsAt(done, Head(rest), Len(done) + 1)),
             Tail(rest))

sortBranches(bs) == sortBranchesFrom(<< >>, bs)

-----------------------------------------------------------------------------
(* The store.  A store value is [branches, files, rofiles, metadata]: the  *)
(* catalog branches.json, the files of data/, the files of data/ that the  *)
(* file system refuses to write, and metadata.json.  A file of data/ holds *)
(* a JSON array of entries (kind "log"), a JSON object SHA -> tag (kind    *)
(* "tags") or text that no decoder of the store accepts (kind "garbage").  *)
(* An error is the message of its innermost cause; "nil" is no error.      *)

NoTags == [sha \in {} |-> << >>]

\* json.Marshal of RunParams: the omitempty fields are left out when ""
MarshalRunParams(p) ==
    LET keys == {"cgo"}
                  \cup (IF p.CPU # "" THEN {"cpu"} ELSE {})
                  \cup (IF p.GOOS # "" THEN {"goos"} ELSE {})
                  \cup (IF p.GOARCH # "" THEN {"goarch"} ELSE {})
                  \cup (IF p.GoVersion # "" THEN {"goVersion"} ELSE {})
    IN [k \in keys |->
           CASE k = "cpu" -> p.CPU
             [] k = "goos" -> p.GOOS
             [] k = "goarch" -> p.GOARCH
             [] k = "goVersion" -> p.GoVersion
             [] k = "cgo" -> p.CGO]

\* json.Unmarshal into RunParams: a missing key leaves the zero value
UnmarshalRunParams(o) ==
    [CPU |-> IF "cpu" \in DOMAIN o THEN o["cpu"] ELSE "",
     GOOS |-> IF "goos" \in DOMAIN o THEN o["goos"] ELSE "",
     GOARCH |-> IF "goarch" \in DOMAIN o THEN o["goarch"] ELSE "",
     GoVersion |-> IF "goVersion" \in DOMAIN o THEN o["goVersion"] ELSE "",
     CGO |-> IF "cgo" \in DOMAIN o THEN o["cgo"] ELSE FALSE]

MarshalEntry(e) ==
    [commit |-> [sha |-> e.Commit.SHA, date |-> e.Commit.Date],
     date |-> e.Date,
     params |-> MarshalRunParams(e.Params),
     benchmarks |-> [i \in DOMAIN e.Benchmarks |->
                        [name |-> e.Benchmarks[i].Name,
                         value |-> e.Benchmarks[i].Value]]]

UnmarshalEntry(o) ==
    [Commit |-> [SHA |-> o.commit.sha, Date |-> o.commit.date],
     Date |-> o.date,
     Params |-> UnmarshalRunParams(o.params),
     Benchmarks |-> [i \in DOMAIN o.benchmarks |->
                        [Name |-> o.benchmarks[i].name,
                         Value |-> o.benchmarks[i].value]]]

LogFile(entries) ==
    [kind |-> "log",
     entries |-> [i \in DOMAIN entries |-> MarshalEntry(entries[i])],
     tags |-> NoTags]

TagsFile(tags) == [kind |-> "tags", entries |-> << >>, tags |-> tags]

GarbageFile == [kind |-> "garbage", entries |-> << >>, tags |-> NoTags]

Metadata(repoURL, lastUpdate, goModule) ==
    [RepoURL |-> repoURL, LastUpdate |-> lastUpdate, GoModule |-> goModule]

\* json.Marshal of Metadata: goModule is left out when ""
MarshalMetadata(m) ==
    [k \in {"repoUrl", "lastUpdate"}
              \cup (IF m.GoModule # "" THEN {"goModule"} ELSE {}) |->
        CASE k = "repoUrl" -> m.RepoURL
          [] k = "lastUpdate" -> m.LastUpdate
          [] k = "goModule" -> m.GoModule]

UnmarshalMetadata(o) ==
    Metadata(IF "repoUrl" \in DOMAIN o THEN o["repoUrl"] ELSE "",
             IF "lastUpdate" \in DOMAIN o THEN o["lastUpdate"] ELSE 0,
             IF "goModule" \in DOMAIN o THEN o["goModule"] ELSE "")

EmptyStore ==
    [branches |-> [exists |-> FALSE, kind |-> "list", names |-> << >>, ro |-> FALSE],
     files |-> [p \in {} |-> GarbageFile],
     rofiles |-> {},
     metadata |-> [exists |-> FALSE, kind |-> "object",
                   json |-> MarshalMetadata(Metadata("", 0, "")), ro |-> FALSE]]

ReadBranches(st) ==
    IF ~st.branches.exists
    THEN [v |-> << >>, err |-> "nil"]
    ELSE IF st.branches.kind # "list"
    THEN [v |-> << >>, err |-> "decoding branches file"]
    ELSE [v |-> st.branches.names, err |-> "nil"]

WriteBranches(st, bs) ==
    IF st.branches.ro
    THEN [st |-> st, err |-> "writing branches file"]
    ELSE [st |-> [st EXCEPT !.branches =
                     [exists |-> TRUE, kind |-> "list", names |-> bs, ro |-> FALSE]],
          err |-> "nil"]

SeqHas(s, x) == \E i \in 1..Len(s) : s[i] = x

EnsureBranchRegistersLiteral(st, branch) ==
    LET rd == ReadBranches(st)
        wr == WriteBranches(st, sortBranches(Append(rd.v, branch)))
    IN IF rd.err # "nil"
       THEN [st |-> st, added |-> FALSE, err |-> rd.err]
       ELSE IF SeqHas(rd.v, branch)
       THEN [st |-> st, added |-> FALSE, err |-> "nil"]
       ELSE IF wr.err # "nil"
       THEN [st |-> st, added |-> FALSE, err |-> wr.err]
       ELSE [st |-> wr.st, added |-> TRUE, err |-> "nil"]

EnsureBranchAppendsUnsorted(st, branch) ==
    LET nameToRegister ==
            IF IsSemanticVersionTag(branch) THEN ReleasesVirtualBranch ELSE branch
        rd == ReadBranches(st)
        wr == WriteBranches(st, Append(rd.v, nameToRegister))
    IN IF rd.err # "nil"
       THEN [st |-> st, added |-> FALSE, err |-> rd.err]
       ELSE IF SeqHas(rd.v, nameToRegister)
       THEN [st |-> st, added |-> FALSE, err |-> "nil"]
       ELSE IF wr.err # "nil"
       THEN [st |-> st, added |-> FALSE, err |-> wr.err]
       ELSE [st |-> wr.st, added |-> TRUE, err |-> "nil"]

EnsureBranch(st, branch) ==
    LET nameToRegister ==
            IF IsSemanticVersionTag(branch) THEN ReleasesVirtualBranch ELSE branch
        rd == ReadBranches(st)
        wr == WriteBranches(st, sortBranches(Append(rd.v, nameToRegister)))
    IN IF rd.err # "nil"
       THEN [st |-> st, added |-> FALSE, err |-> rd.err]
       ELSE IF SeqHas(rd.v, nameToRegister)
       THEN [st |-> st, added |-> FALSE, err |-> "nil"]
       ELSE IF wr.err # "nil"
       THEN [st |-> st, added |-> FALSE, err |-> wr.err]
       ELSE [st |-> wr.st, added |-> TRUE, err |-> "nil"]

\* ReadBranchData that reports a missing file
ReadBranchDataRequiresFile(st, branch) ==
    LET p == branchDataPath(branch)
    IN IF p \notin DOMAIN st.files
       THEN [v |-> << >>, err |-> "reading branch data"]
       ELSE IF st.files[p].kind # "log"
       THEN [v |-> << >>, err |-> "decoding branch data"]
       ELSE [v |-> [i \in DOMAIN st.files[p].entries |->
                       UnmarshalEntry(st.files[p].entries[i])],
             err |-> "nil"]

\* ReadBranchData that takes an undecodable log for an empty one
ReadBranchDataSkipsCorrupt(st, branch) ==
    LET p == branchDataPath(branch)
    IN IF p \notin DOMAIN st.files \/ st.files[p].kind # "log"
       THEN [v |-> << >>, err |-> "nil"]
       ELSE [v |-> [i \in DOMAIN st.files[p].entries |->
                       UnmarshalEntry(st.files[p].entries[i])],
             err |-> "nil"]

ReadBranchData(st, branch) ==
    LET p == branchDataPath(branch)
    IN IF p \notin DOMAIN st.files
       THEN [v |-> << >>, err |-> "nil"]
       ELSE IF st.files[p].kind # "log"
       THEN [v |-> << >>, err |-> "decoding branch data"]
       ELSE [v |-> [i \in DOMAIN st.files[p].entries |->
                       UnmarshalEntry(st.files[p].entries[i])],
             err |-> "nil"]

\* os.WriteFile: create or replace the file at p, or fail and leave it
WriteFile(st, p, content) ==
    IF p \in st.rofiles
    THEN [st |-> st, err |-> "open: permission denied"]
    ELSE [st |-> [st EXCEPT !.files =
                     [q \in DOMAIN st.files \cup {p} |->
                         IF q = p THEN content ELSE st.files[q]]],
          err |-> "nil"]

\* WriteBranchData that puts the entries in commit order first
WriteBranchDataSorted(st, branch, entries) ==
    LET wr == WriteFile(st, branchDataPath(branch),
                        LogFile(sortByCommitDate(entries)))
    IN [st |-> wr.st,
        err |-> IF wr.err # "nil" THEN "writing branch data" ELSE "nil"]

WriteBranchData(st, branch, entries) ==
    LET wr == WriteFile(st, branchDataPath(branch), LogFile(entries))
    IN [st |-> wr.st,
        err |-> IF wr.err # "nil" THEN "writing branch data" ELSE "nil"]

TrimKeepsOneMore(filtered, maxItems) ==
    IF maxItems > 0 /\ Len(filtered) > maxItems + 1
    THEN SubSeq(filtered, Len(filtered) - maxItems, Len(filtered))
    ELSE filtered

Trim(filtered, maxItems) ==
    IF maxItems > 0 /\ Len(filtered) > maxItems
    THEN SubSeq(filtered, Len(filtered) - maxItems + 1, Len(filtered))
    ELSE filtered

\* the in-memory part of mergeEntries: filter by key, append, sort, trim
mergedDropsLog(entries, newEntries, maxItems) ==
    Trim(sortByCommitDate(newEntries), maxItems)

mergedKeepsOld(entries, newEntries, maxItems) ==
    Trim(sortByCommitDate(entries \o newEntries), maxItems)

merged(entries, newEntries, maxItems) ==
    LET newKeys == {EntryKey(newEntries[i]) : i \in 1..Len(newEntries)}
        filtered == SelectSeq(entries, LAMBDA e : EntryKey(e) \notin newKeys)
    IN Trim(sortByCommitDate(filtered \o newEntries), maxItems)

mergeEntries(st, branch, newEntries, maxItems) ==
    LET rd == ReadBranchData(st, branch)
    IN IF rd.err # "nil"
       THEN [st |-> st, err |-> rd.err]
       ELSE WriteBranchData(st, branch, merged(rd.v, newEntries, maxItems))

readReleaseTags(st) ==
    IF releaseTagsPath \notin DOMAIN st.files
    THEN [v |-> NoTags, err |-> "nil"]
    ELSE IF st.files[releaseTagsPath].kind # "tags"
    THEN [v |-> NoTags, err |-> "decoding release tags"]
    ELSE [v |-> st.files[releaseTagsPath].tags, err |-> "nil"]

writeReleaseTags(st, tags) ==
    LET wr == WriteFile(st, releaseTagsPath, TagsFile(tags))
    IN [st |-> wr.st,
        err |-> IF wr.err # "nil" THEN "writing release tags" ELSE "nil"]

\* tags after the loop over entries: the last entry of a SHA decides, and
\* every entry carries the same tag
taggedKeepsFirst(tags, tag, entries) ==
    LET shas == {entries[i].Commit.SHA : i \in 1..Len(entries)} \ {""}
    IN [sha \in DOMAIN tags \cup shas |->
           IF sha \in DOMAIN tags THEN tags[sha] ELSE tag]

tagged(tags, tag, entries) ==
    LET shas == {entries[i].Commit.SHA : i \in 1..Len(entries)} \ {""}
    IN [sha \in DOMAIN tags \cup shas |->
           IF sha \in shas THEN tag ELSE tags[sha]]

recordReleaseTags(st, tag, entries) ==
    LET rd == readReleaseTags(st)
    IN IF rd.err # "nil"
       THEN [st |-> st, err |-> rd.err]
       ELSE writeReleaseTags(st, tagged(rd.v, tag, entries))

ReadMetadata(st) ==
    IF ~st.metadata.exists
    THEN [v |-> Metadata("", 0, ""), err |-> "nil"]
    ELSE IF st.metadata.kind # "object"
    THEN [v |-> Metadata("", 0, ""), err |-> "decoding metadata"]
    ELSE [v |-> UnmarshalMetadata(st.metadata.json), err |-> "nil"]

\* WriteMetadata that keeps the stored module when it is given none
WriteMetadataKeepsGoModule(st, repoURL, goModule, now) ==
    IF st.metadata.ro
    THEN [st |-> st, err |-> "writing metadata"]
    ELSE [st |-> [st EXCEPT !.metadata =
                     [exists |-> TRUE, kind |-> "object",
                      json |-> MarshalMetadata(
                                  Metadata(repoURL, now,
                                           IF goModule = "" /\ st.metadata.exists
                                           THEN UnmarshalMetadata(st.metadata.json).GoModule
                                           ELSE goModule)),
                      ro |-> FALSE]],
          err |-> "nil"]

\* now is time.Now().UnixMilli()
WriteMetadata(st, repoURL, goModule, now) ==
    IF st.metadata.ro
    THEN [st |-> st, err |-> "writing metadata"]
    ELSE [st |-> [st EXCEPT !.metadata =
                     [exists |-> TRUE, kind |-> "object",
                      json |-> MarshalMetadata(Metadata(repoURL, now, goModule)),
                      ro |-> FALSE]],
          err |-> "nil"]

\* AppendEntries without the early return on an empty batch
AppendEntriesMergesEmptyBatch(st, branch, newEntries, maxItems) ==
    LET eb == EnsureBranch(st, branch)
    IN IF eb.err # "nil" THEN [st |-> eb.st, err |-> eb.err]
       ELSE
       LET m1 == mergeEntries(eb.st, branch, newEntries, maxItems)
       IN IF m1.err # "nil" THEN [st |-> m1.st, err |-> m1.err]
          ELSE IF ~IsSemanticVersionTag(branch) THEN [st |-> m1.st, err |-> "nil"]
          ELSE
          LET m2 == mergeEntries(m1.st, ReleasesVirtualBranch, newEntries, maxItems)
          IN IF m2.err # "nil" THEN [st |-> m2.st, err |-> m2.err]
             ELSE
             LET rt == recordReleaseTags(m2.st, branch, newEntries)
             IN [st |-> rt.st, err |-> rt.err]

\* AppendEntries with an aggregate log that is never trimmed
AppendEntriesAggregateKeepsAll(st, branch, newEntries, maxItems) ==
    IF Len(newEntries) = 0 THEN [st |-> st, err |-> "nil"]
    ELSE
    LET eb == EnsureBranch(st, branch)
    IN IF eb.err # "nil" THEN [st |-> eb.st, err |-> eb.err]
       ELSE
       LET m1 == mergeEntries(eb.st, branch, newEntries, maxItems)
       IN IF m1.err # "nil" THEN [st |-> m1.st, err |-> m1.err]
          ELSE IF ~IsSemanticVersionTag(branch) THEN [st |-> m1.st, err |-> "nil"]
          ELSE
          LET m2 == mergeEntries(m1.st, ReleasesVirtualBranch, newEntries, 0)
          IN IF m2.err # "nil" THEN [st |-> m2.st, err |-> m2.err]
             ELSE
             LET rt == recordReleaseTags(m2.st, branch, newEntries)
             IN [st |-> rt.st, err |-> rt.err]

AppendEntries(st, branch, newEntries, maxItems) ==
    IF Len(newEntries) = 0 THEN [st |-> st, err |-> "nil"]
    ELSE
    LET eb == EnsureBranch(st, branch)
    IN IF eb.err # "nil" THEN [st |-> eb.st, err |-> eb.err]
       ELSE
       LET m1 == mergeEntries(eb.st, branch, newEntries, maxItems)
       IN IF m1.err # "nil" THEN [st |-> m1.st, err |-> m1.err]
          ELSE IF ~IsSemanticVersionTag(branch) THEN [st |-> m1.st, err |-> "nil"]
          ELSE
          LET m2 == mergeEntries(m1.st, ReleasesVirtualBranch, newEntries, maxItems)
          IN IF m2.err # "nil" THEN [st |-> m2.st, err |-> m2.err]
             ELSE
             LET rt == recordReleaseTags(m2.st, branch, newEntries)
             IN [st |-> rt.st, err |-> rt.err]

\* AppendEntry that does not pass its retention limit on
AppendEntryKeepsAll(st, branch, entry, maxItems) ==
    AppendEntries(st, branch, << entry >>, 0)

AppendEntry(st, branch, entry, maxItems) ==
    AppendEntries(st, branch, << entry >>, maxItems)

-----------------------------------------------------------------------------
(* The callers' inputs *)

main == << "m", "a", "i", "n" >>
develop == << "d", "e", "v", "e", "l", "o", "p" >>
v100 == << "v", "1", ".", "0", ".", "0" >>
v200 == << "v", "2", ".", "0", ".", "0" >>
rc123 == << "1", ".", "2", ".", "3", "-", "r", "c" >>
v10 == << "v", "1", ".", "0" >>
upperZ == << "Z" >>
releaseTagsBranch == releaseTagsFileName
v1 == << "v", "1" >>
release10 == << "r", "e", "l", "e", "a", "s", "e", "/", "1", ".", "0" >>
release10u == << "r", "e", "l", "e", "a", "s", "e", "_", "1", ".", "0" >>

\* the names given to IsSemanticVersionTag: every string of up to MaxNameLen
\* of the characters v 1 . - and the names of the tests
TagNames ==
    UNION { [1..k -> {"v", "1", ".", "-"}] : k \in 0..MaxNameLen }
        \cup {main, develop, v100, v200, rc123, v10, v1, release10,
               ReleasesVirtualBranch}

P0 == RunParams("cpu1", "linux", "amd64", "go1.22", TRUE)

\* commit aaa measured twice with the same parameters: 100, then 42 with an
\* older commit date; commit bbb is the latest
eA100 == BenchmarkEntry("aaa", "1970-01-01T00:00:02Z", 2000, P0, 100)
eA42 == BenchmarkEntry("aaa", "1970-01-01T00:00:01Z", 1000, P0, 42)
eB == BenchmarkEntry("bbb", "1970-01-01T00:00:03Z", 3000, P0, 7)

\* a parseable commit date with an unrelated Date field, and an unparseable one
eParsed == BenchmarkEntry("aaa", "1970-01-01T00:00:02Z", 500, P0, 1)
eUnparsed == BenchmarkEntry("bbb", "", 1000, P0, 2)

\* an older commit than eParsed's, measured after both
eBackfill == BenchmarkEntry("ccc", "1970-01-01T00:00:01Z", 3000, P0, 4)

\* an entry without a commit SHA
eNoSHA == BenchmarkEntry("", "1970-01-01T00:00:01Z", 1000, P0, 3)

\* an entry whose RunParams are all zero values
eEmptyParams ==
    BenchmarkEntry("ccc", "1970-01-01T00:00:01Z", 1000,
                   RunParams("", "", "", "", FALSE), 5)

\* the arguments of WriteMetadata and the readings of the clock
RepoURLs == {"https://github.com/example/repo"}
GoModules == {"", "github.com/example/repo"}
Clock == {1000, 2000}

\* eA100 with one component of its key changed
KeyVariants ==
    { BenchmarkEntry("bbb", "1970-01-01T00:00:02Z", 2000, P0, 100),
      [eA100 EXCEPT !.Params.CPU = "cpu2"],
      [eA100 EXCEPT !.Params.GOOS = "darwin"],
      [eA100 EXCEPT !.Params.GOARCH = "arm64"],
      [eA100 EXCEPT !.Params.GoVersion = ""],
      [eA100 EXCEPT !.Params.CGO = FALSE] }

AppendOps == {"EnsureBranch", "AppendEntry", "AppendEntries"}

\* the callers that read and overwrite files directly
DirectOps ==
    {"ReadBranches", "WriteBranches", "ReadBranchData", "WriteBranchData",
     "readReleaseTags", "ReadMetadata", "WriteMetadata", "AppendEntry"}

\* appends and reads on a file system that damages and write-protects files
FaultOps ==
    {"AppendEntries", "ReadBranches", "ReadBranchData", "Corrupt", "Chmod"}

Scenarios ==
    { [names |-> {main}, pool |-> {eA100, eA42, eB}, more |-> 0, ops |-> AppendOps],
      [names |-> {main}, pool |-> {eParsed, eUnparsed, eBackfill}, more |-> 0,
       ops |-> AppendOps],
      [names |-> {v100, v200}, pool |-> {eA100, eB}, more |-> 0, ops |-> AppendOps],
      [names |-> {v100, rc123}, pool |-> {eA100, eNoSHA}, more |-> 0, ops |-> AppendOps],
      [names |-> {main, releaseTagsBranch, v100}, pool |-> {eA100}, more |-> 0,
       ops |-> AppendOps],
      [names |-> {main, develop, upperZ, v10, v100, rc123, ReleasesVirtualBranch},
       pool |-> {}, more |-> 2, ops |-> AppendOps],
      [names |-> {release10, release10u}, pool |-> {eA100, eB}, more |-> 0,
       ops |-> AppendOps],
      [names |-> {ReleasesVirtualBranch, v100}, pool |-> {eA100}, more |-> 0,
       ops |-> AppendOps],
      [names |-> {main, v100}, pool |-> {eA100, eA42, eEmptyParams}, more |-> -1,
       ops |-> DirectOps],
      [names |-> {main, v100}, pool |-> {eA100}, more |-> -1, ops |-> FaultOps] }
    \cup { [names |-> {main}, pool |-> {eA100, e}, more |-> 0, ops |-> AppendOps] :
             e \in KeyVariants }

\* a batch holds up to MaxBatch of the run's entries, each at most once, in
\* any order (two of them may still share an EntryKey)
Batches(es) ==
    { b \in UNION { [1..k -> es] : k \in 0..MaxBatch } :
        \A i, j \in DOMAIN b : i # j => b[i] # b[j] }

\* the lists a caller passes to WriteBranches: sorted or not
BranchLists(ns) ==
    { l \in UNION { [1..k -> ns] : k \in 0..MaxBatch } :
        \A i, j \in DOMAIN l : i # j => l[i] # l[j] }

\* the files of data/ that the file system may damage or protect
DataTargets(ns) ==
    {branchDataPath(b) : b \in ns}
        \cup {branchDataPath(ReleasesVirtualBranch), releaseTagsPath}

-----------------------------------------------------------------------------
(* The state machine *)

Store ==
    [branches |-> branches, files |-> files, rofiles |-> rofiles,
     metadata |-> metadata]

Call(op, branch, batch, maxItems) ==
    [op |-> op, branch |-> branch, batch |-> batch, maxItems |-> maxItems,
     list |-> << >>, err |-> "nil", added |-> FALSE, value |-> << >>,
     pre |-> Store]

NoCall == [Call("none", << >>, << >>, 0) EXCEPT !.pre = EmptyStore]

Init ==
    /\ branches = EmptyStore.branches
    /\ files = EmptyStore.files
    /\ rofiles = EmptyStore.rofiles
    /\ metadata = EmptyStore.metadata
    /\ last = NoCall
    /\ \E sc \in Scenarios :
        /\ names = sc.names
        /\ pool = sc.pool
        /\ ops = sc.ops
        /\ budget = MaxCalls + sc.more
    /\ procs = << >>

\* the store on disk becomes st
Persist(st) ==
    /\ branches' = st.branches
    /\ files' = st.files
    /\ rofiles' = st.rofiles
    /\ metadata' = st.metadata

\* one call of the run is used up
Step(op) ==
    /\ op \in ops
    /\ budget > 0
    /\ budget' = budget - 1
    /\ UNCHANGED <<names, pool, ops, procs>>

DoEnsureBranch ==
    /\ Step("EnsureBranch")
    /\ \E b \in names :
        \E r \in {EnsureBranch(Store, b)} :
           /\ Persist(r.st)
           /\ last' = [Call("EnsureBranch", b, << >>, 0) EXCEPT
                          !.err = r.err, !.added = r.added]

DoAppendEntry ==
    /\ Step("AppendEntry")
    /\ \E b \in names, e \in pool, n \in MaxItemsChoices :
        \E r \in {AppendEntry(Store, b, e, n)} :
           /\ Persist(r.st)
           /\ last' = [Call("AppendEntry", b, << e >>, n) EXCEPT !.err = r.err]

DoAppendEntries ==
    /\ Step("AppendEntries")
    /\ \E b \in names, batch \in Batches(pool), n \in MaxItemsChoices :
        \E r \in {AppendEntries(Store, b, batch, n)} :
           /\ Persist(r.st)
           /\ last' = [Call("AppendEntries", b, batch, n) EXCEPT !.err = r.err]

DoReadBranches ==
    /\ Step("ReadBranches")
    /\ \E r \in {ReadBranches(Store)} :
           last' = [Call("ReadBranches", << >>, << >>, 0) EXCEPT
                       !.err = r.err, !.value = r.v]
    /\ UNCHANGED <<branches, files, rofiles, metadata>>

DoWriteBranches ==
    /\ Step("WriteBranches")
    /\ \E l \in BranchLists(names) :
        \E r \in {WriteBranches(Store, l)} :
           /\ Persist(r.st)
           /\ last' = [Call("WriteBranches", << >>, << >>, 0) EXCEPT
                          !.err = r.err, !.list = l]

DoReadBranchData ==
    /\ Step("ReadBranchData")
    /\ \E b \in names :
        \E r \in {ReadBranchData(Store, b)} :
           last' = [Call("ReadBranchData", b, << >>, 0) EXCEPT
                       !.err = r.err, !.value = r.v]
    /\ UNCHANGED <<branches, files, rofiles, metadata>>

DoWriteBranchData ==
    /\ Step("WriteBranchData")
    /\ \E b \in names, entries \in Batches(pool) :
        \E r \in {WriteBranchData(Store, b, entries)} :
           /\ Persist(r.st)
           /\ last' = [Call("WriteBranchData", b, entries, 0) EXCEPT !.err = r.err]

DoReadReleaseTags ==
    /\ Step("readReleaseTags")
    /\ \E r \in {readReleaseTags(Store)} :
           last' = [Call("readReleaseTags", << >>, << >>, 0) EXCEPT
                       !.err = r.err, !.value = r.v]
    /\ UNCHANGED <<branches, files, rofiles, metadata>>

DoReadMetadata ==
    /\ Step("ReadMetadata")
    /\ \E r \in {ReadMetadata(Store)} :
           last' = [Call("ReadMetadata", << >>, << >>, 0) EXCEPT
                       !.err = r.err, !.value = r.v]
    /\ UNCHANGED <<branches, files, rofiles, metadata>>

DoWriteMetadata ==
    /\ Step("WriteMetadata")
    /\ \E repoURL \in RepoURLs, goModule \in GoModules, now \in Clock :
        \E r \in {WriteMetadata(Store, repoURL, goModule, now)} :
           /\ Persist(r.st)
           /\ last' = [Call("WriteMetadata", << >>, << >>, 0) EXCEPT
                          !.err = r.err,
                          !.value = Metadata(repoURL, now, goModule)]

\* the environment leaves undecodable text in a file (a truncated or foreign
\* file): json.Unmarshal fails on it
DoCorrupt ==
    /\ Step("Corrupt")
    /\ \/ /\ branches' = [branches EXCEPT !.exists = TRUE, !.kind = "garbage",
                                          !.names = << >>]
          /\ UNCHANGED <<files, metadata>>
       \/ /\ metadata' = [metadata EXCEPT !.exists = TRUE, !.kind = "garbage"]
          /\ UNCHANGED <<branches, files>>
       \/ /\ \E p \in DataTargets(names) :
                files' = [q \in DOMAIN files \cup {p} |->
                             IF q = p THEN GarbageFile ELSE files[q]]
          /\ UNCHANGED <<branches, metadata>>
    /\ last' = Call("Corrupt", << >>, << >>, 0)
    /\ UNCHANGED rofiles

\* the environment write-protects a file: os.WriteFile fails on it
DoChmod ==
    /\ Step("Chmod")
    /\ \/ /\ branches' = [branches EXCEPT !.ro = TRUE]
          /\ UNCHANGED <<rofiles, metadata>>
       \/ /\ metadata' = [metadata EXCEPT !.ro = TRUE]
          /\ UNCHANGED <<branches, rofiles>>
       \/ /\ \E p \in DataTargets(names) : rofiles' = rofiles \cup {p}
          /\ UNCHANGED <<branches, metadata>>
    /\ last' = Call("Chmod", << >>, << >>, 0)
    /\ UNCHANGED files

Next ==
    \/ DoEnsureBranch
    \/ DoAppendEntry
    \/ DoAppendEntries
    \/ DoReadBranches
    \/ DoWriteBranches
    \/ DoReadBranchData
    \/ DoWriteBranchData
    \/ DoReadReleaseTags
    \/ DoReadMetadata
    \/ DoWriteMetadata
    \/ DoCorrupt
    \/ DoChmod

Spec == Init /\ [][Next]_vars

-----------------------------------------------------------------------------
(* IsSemanticVersionTag on its own: one call on any of TagNames *)

SemverInit ==
    /\ branches = EmptyStore.branches
    /\ files = EmptyStore.files
    /\ rofiles = EmptyStore.rofiles
    /\ metadata = EmptyStore.metadata
    /\ last = NoCall
    /\ names = {}
    /\ pool = {}
    /\ ops = {"IsSemanticVersionTag"}
    /\ budget = 1
    /\ procs = << >>

DoIsSemanticVersionTag ==
    /\ Step("IsSemanticVersionTag")
    /\ \E name \in TagNames :
           last' = [Call("IsSemanticVersionTag", name, << >>, 0) EXCEPT
                       !.value = IsSemanticVersionTag(name)]
    /\ UNCHANGED <<branches, files, rofiles, metadata>>

SemverNext == DoIsSemanticVersionTag

SpecSemver == SemverInit /\ [][SemverNext]_vars

-----------------------------------------------------------------------------
(* Concurrent invocations.  Each invocation of the CLI is a process of its *)
(* own that runs AppendEntries once; nothing locks the files, so the reads *)
(* and writes of the invocations interleave.  A step is one os.ReadFile or *)
(* one os.WriteFile (taken as atomic) with the computation that follows.   *)

Writers == {1, 2}

\* an invocation about to call AppendEntries(branch, batch, maxItems)
Invocation(branch, batch, maxItems) ==
    [pc |-> "AppendEntries", branch |-> branch, batch |-> batch,
     maxItems |-> maxItems, target |-> branch, buf |-> << >>, read |-> << >>,
     err |-> "nil"]

RaceInit ==
    /\ branches = EmptyStore.branches
    /\ files = EmptyStore.files
    /\ rofiles = EmptyStore.rofiles
    /\ metadata = EmptyStore.metadata
    /\ last = NoCall
    /\ names = {main, develop, v100, v200}
    /\ pool = {eA100, eB}
    /\ ops = {}
    /\ budget = 0
    /\ procs \in [Writers -> { Invocation(b, batch, n) :
                                  b \in {main, develop, v100, v200},
                                  batch \in Batches({eA100, eB}),
                                  n \in MaxItemsChoices }]

\* invocation p returns err
Return(p, err) == procs' = [procs EXCEPT ![p].pc = "done", ![p].err = err]

RaceBeginSkipsCatalog ==
    /\ \E p \in DOMAIN procs :
        /\ procs[p].pc = "AppendEntries"
        /\ IF Len(procs[p].batch) = 0
           THEN Return(p, "nil")
           ELSE procs' = [procs EXCEPT ![p].pc = "ReadBranchData"]
    /\ UNCHANGED <<branches, files, rofiles, metadata, last, budget, names, pool, ops>>

\* AppendEntries, lines 244-246
RaceBegin ==
    /\ \E p \in DOMAIN procs :
        /\ procs[p].pc = "AppendEntries"
        /\ IF Len(procs[p].batch) = 0
           THEN Return(p, "nil")
           ELSE procs' = [procs EXCEPT ![p].pc = "ReadBranches"]
    /\ UNCHANGED <<branches, files, rofiles, metadata, last, budget, names, pool, ops>>

\* EnsureBranch up to the write of the catalog
RaceReadBranches ==
    /\ \E p \in DOMAIN procs :
        /\ procs[p].pc = "ReadBranches"
        /\ LET branch == procs[p].branch
               nameToRegister ==
                   IF IsSemanticVersionTag(branch) THEN ReleasesVirtualBranch
                   ELSE branch
               rd == ReadBranches(Store)
           IN IF rd.err # "nil" THEN Return(p, rd.err)
              ELSE IF SeqHas(rd.v, nameToRegister)
              THEN procs' = [procs EXCEPT ![p].pc = "ReadBranchData"]
              ELSE procs' = [procs EXCEPT
                                ![p].pc = "WriteBranches",
                                ![p].buf = sortBranches(Append(rd.v, nameToRegister))]
    /\ UNCHANGED <<branches, files, rofiles, metadata, last, budget, names, pool, ops>>

RaceWriteBranches ==
    /\ \E p \in DOMAIN procs :
        /\ procs[p].pc = "WriteBranches"
        /\ \E wr \in {WriteBranches(Store, procs[p].buf)} :
              /\ Persist(wr.st)
              /\ IF wr.err # "nil" THEN Return(p, wr.err)
                 ELSE procs' = [procs EXCEPT ![p].pc = "ReadBranchData"]
    /\ UNCHANGED <<last, budget, names, pool, ops>>

\* mergeEntries up to the write of the log of target
RaceReadBranchData ==
    /\ \E p \in DOMAIN procs :
        /\ procs[p].pc = "ReadBranchData"
        /\ \E rd \in {ReadBranchData(Store, procs[p].target)} :
              IF rd.err # "nil" THEN Return(p, rd.err)
              ELSE procs' = [procs EXCEPT
                                ![p].pc = "WriteBranchData",
                                ![p].buf = merged(rd.v, procs[p].batch,
                                                  procs[p].maxItems),
                                ![p].read = IF procs[p].target = procs[p].branch
                                            THEN rd.v ELSE @]
    /\ UNCHANGED <<branches, files, rofiles, metadata, last, budget, names, pool, ops>>

\* the write of mergeEntries, and what AppendEntries does next
RaceWriteBranchData ==
    /\ \E p \in DOMAIN procs :
        /\ procs[p].pc = "WriteBranchData"
        /\ \E wr \in {WriteBranchData(Store, procs[p].target, procs[p].buf)} :
              /\ Persist(wr.st)
              /\ IF wr.err # "nil" THEN Return(p, wr.err)
                 ELSE IF ~IsSemanticVersionTag(procs[p].branch) THEN Return(p, "nil")
                 ELSE IF procs[p].target = procs[p].branch
                 THEN procs' = [procs EXCEPT ![p].pc = "ReadBranchData",
                                             ![p].target = ReleasesVirtualBranch]
                 ELSE procs' = [procs EXCEPT ![p].pc = "readReleaseTags"]
    /\ UNCHANGED <<last, budget, names, pool, ops>>

\* recordReleaseTags up to the write of the tag map
RaceReadReleaseTags ==
    /\ \E p \in DOMAIN procs :
        /\ procs[p].pc = "readReleaseTags"
        /\ \E rd \in {readReleaseTags(Store)} :
              IF rd.err # "nil" THEN Return(p, rd.err)
              ELSE procs' = [procs EXCEPT
                                ![p].pc = "writeReleaseTags",
                                ![p].buf = tagged(rd.v, procs[p].branch,
                                                  procs[p].batch)]
    /\ UNCHANGED <<branches, files, rofiles, metadata, last, budget, names, pool, ops>>

RaceWriteReleaseTags ==
    /\ \E p \in DOMAIN procs :
        /\ procs[p].pc = "writeReleaseTags"
        /\ \E wr \in {writeReleaseTags(Store, procs[p].buf)} :
              /\ Persist(wr.st)
              /\ Return(p, wr.err)
    /\ UNCHANGED <<last, budget, names, pool, ops>>

RaceNext ==
    \/ RaceBegin
    \/ RaceReadBranches
    \/ RaceWriteBranches
    \/ RaceReadBranchData
    \/ RaceWriteBranchData
    \/ RaceReadReleaseTags
    \/ RaceWriteReleaseTags

SpecRace == RaceInit /\ [][RaceNext]_vars

-----------------------------------------------------------------------------
(* Late-arriving data.  One caller appends the entries of a list to main,  *)
(* one AppendEntry call per entry, with one retention limit; the list is   *)
(* in any order.                                                           *)

\* the entries that arrive: some share an EntryKey, some a commit date
OrderPool == {eA42, eA100, eB, eBackfill, eEmptyParams}

\* the lists that hold each entry of es once
Orders(es) ==
    { l \in [1..Cardinality(es) -> es] : \A i, j \in DOMAIN l : i # j => l[i] # l[j] }

\* a caller about to append the entries of list to branch, from the first on
Loop(branch, list, maxItems) ==
    [Invocation(branch, list, maxItems) EXCEPT !.pc = "AppendEntry"]

OrderInit ==
    /\ branches = EmptyStore.branches
    /\ files = EmptyStore.files
    /\ rofiles = EmptyStore.rofiles
    /\ metadata = EmptyStore.metadata
    /\ last = NoCall
    /\ names = {main}
    /\ ops = {"AppendEntry"}
    /\ pool \in {es \in SUBSET OrderPool : Cardinality(es) \in 1..MaxCalls}
    /\ budget = Cardinality(pool)
    /\ procs \in { << Loop(main, l, n) >> : l \in Orders(pool), n \in MaxItemsChoices }

\* the next AppendEntry call of the loop; the loop ends at the first error
OrderAppendEntry ==
    /\ budget > 0
    /\ procs[1].pc = "AppendEntry"
    /\ LET e == procs[1].batch[Len(procs[1].batch) - budget + 1]
       IN \E r \in {AppendEntry(Store, procs[1].branch, e, procs[1].maxItems)} :
             /\ Persist(r.st)
             /\ last' = [Call("AppendEntry", procs[1].branch, << e >>,
                              procs[1].maxItems) EXCEPT !.err = r.err]
             /\ IF r.err # "nil" \/ budget = 1
                THEN Return(1, r.err)
                ELSE UNCHANGED procs
    /\ budget' = budget - 1
    /\ UNCHANGED <<names, pool, ops>>

OrderNext == OrderAppendEntry

SpecOrder == OrderInit /\ [][OrderNext]_vars

-----------------------------------------------------------------------------
(* One invocation at a time, step by step.  An invocation runs             *)
(* AppendEntries with the steps of the concurrent invocations above; it    *)
(* may be killed between two steps, and a write to a protected file makes  *)
(* it return early.  The next invocation starts when this one has ended.   *)

StepsInit ==
    /\ branches = EmptyStore.branches
    /\ files = EmptyStore.files
    /\ rofiles \in {{}, {branchDataPath(ReleasesVirtualBranch)}, {releaseTagsPath}}
    /\ metadata = EmptyStore.metadata
    /\ last = NoCall
    /\ names = {main, v100, v200}
    /\ pool = {eA100, eB}
    /\ ops = {"AppendEntries"}
    /\ budget = MaxCalls - 2
    /\ procs \in { << Invocation(b, batch, n) >> :
                      b \in names, batch \in Batches(pool), n \in MaxItemsChoices }

\* the invocation has returned or was killed
Ended(p) == procs[p].pc \in {"done", "killed"}

\* the process of the invocation is killed between two of its steps
StepsKill ==
    /\ ~Ended(1)
    /\ procs[1].pc # "AppendEntries"
    /\ procs' = [procs EXCEPT ![1].pc = "killed"]
    /\ UNCHANGED <<branches, files, rofiles, metadata, last, budget, names, pool, ops>>

\* the next invocation of the store command
StepsInvoke ==
    /\ Ended(1)
    /\ budget > 0
    /\ budget' = budget - 1
    /\ \E b \in names, batch \in Batches(pool), n \in MaxItemsChoices :
           procs' = << Invocation(b, batch, n) >>
    /\ UNCHANGED <<branches, files, rofiles, metadata, last, names, pool, ops>>

StepsNext ==
    \/ RaceBegin
    \/ RaceReadBranches
    \/ RaceWriteBranches
    \/ RaceReadBranchData
    \/ RaceWriteBranchData
    \/ RaceReadReleaseTags
    \/ RaceWriteReleaseTags
    \/ StepsKill
    \/ StepsInvoke

SpecSteps == StepsInit /\ [][StepsNext]_vars

-----------------------------------------------------------------------------
(* Vocabulary of the properties *)

\* the last call was an append of a non-empty batch
Appended == last.op \in {"AppendEntry", "AppendEntries"} /\ last.batch # << >>

Succeeded == last.err = "nil"

\* the log of a branch as ReadBranchData returns it, before and after the call
LogBefore(branch) == ReadBranchData(last.pre, branch).v
LogAfter(branch) == ReadBranchData(Store, branch).v

Elems(s) == {s[i] : i \in DOMAIN s}

\* indexes of the entries of s that have key k
WithKey(s, k) == {i \in DOMAIN s : EntryKey(s[i]) = k}

\* the effective commit time: the parsed commit date, else the Date field
EffectiveTime(e) ==
    IF ParseRFC3339(e.Commit.Date).ok
    THEN ParseRFC3339(e.Commit.Date).ms
    ELSE e.Date

TagsOf(st) ==
    IF releaseTagsPath \in DOMAIN st.files THEN st.files[releaseTagsPath].tags
    ELSE NoTags

Min(a, b) == IF a <= b THEN a ELSE b

\* the run makes only EnsureBranch, AppendEntry and AppendEntries calls
AppendOnly == ops \subseteq AppendOps

-----------------------------------------------------------------------------
(* C1 *)

\* C1 as stated: when an append brings an entry (its key once in the batch)
\* whose key is already in the branch log with other metric values, the log
\* afterwards holds exactly one entry with that key, and it is the incoming
\* one.
C1_ReplaceLeavesExactlyOne ==
    (Appended /\ Succeeded) =>
        \A i \in DOMAIN last.batch :
            LET e == last.batch[i]
                k == EntryKey(e)
            IN ( /\ Cardinality(WithKey(last.batch, k)) = 1
                 /\ \E old \in Elems(LogBefore(last.branch)) :
                        EntryKey(old) = k /\ old.Benchmarks # e.Benchmarks )
               => /\ Cardinality(WithKey(LogAfter(last.branch), k)) = 1
                  /\ e \in Elems(LogAfter(last.branch))

\* C1 amended: after an append, every entry of the branch log whose key is
\* in the batch is an entry of the batch (no earlier values survive); with
\* retention limit 0 the log holds as many entries of a batch key as the
\* batch does, so exactly one, the incoming one, when the batch holds the key
\* once - also when the incoming commit date is the older one.
C1_ReplaceUnlessTrimmed ==
    (Appended /\ Succeeded) =>
        \A i \in DOMAIN last.batch :
            LET e == last.batch[i]
                k == EntryKey(e)
                after == LogAfter(last.branch)
            IN /\ \A j \in WithKey(after, k) : after[j] \in Elems(last.batch)
               /\ last.maxItems = 0 =>
                    /\ Cardinality(WithKey(after, k))
                         = Cardinality(WithKey(last.batch, k))
                    /\ e \in Elems(after)

\* an entry measured at a later commit date is evicted by an incoming entry
\* of the same key with other values and an older commit date
C1_Witness ==
    /\ last.op = "AppendEntry" /\ Succeeded /\ last.maxItems = 0
    /\ last.batch = << eA42 >>
    /\ eA100 \in Elems(LogBefore(last.branch))
    /\ eB \in Elems(LogBefore(last.branch))
    /\ LogAfter(last.branch) = << eA42, eB >>

-----------------------------------------------------------------------------
(* C2 *)

\* C2: in a run of EnsureBranch, AppendEntry and AppendEntries calls from the
\* empty store, no branch log holds two entries with the same EntryKey.
C2_KeyUnique ==
    AppendOnly =>
    \A b \in names \cup {ReleasesVirtualBranch} :
        LET log == ReadBranchData(Store, b).v
        IN \A i, j \in DOMAIN log : i # j => EntryKey(log[i]) # EntryKey(log[j])

-----------------------------------------------------------------------------
(* C3 *)

\* C3: after an append, adjacent entries of the branch log are in
\* non-decreasing order of effective commit time.
C3_Chronological ==
    (Appended /\ Succeeded) =>
        LET after == LogAfter(last.branch)
        IN \A i \in 1..(Len(after) - 1) :
               EffectiveTime(after[i]) <= EffectiveTime(after[i + 1])

-----------------------------------------------------------------------------
(* C4 *)

\* C4: after an append with retention limit N > 0 the branch log has
\* min(N, number of distinct keys of the previous log and the batch) entries;
\* they are the tail of the merged, sorted entries, and no dropped entry is
\* later than a retained one.
C4_RetentionLaw ==
    (Appended /\ Succeeded /\ last.maxItems > 0) =>
        LET before == LogBefore(last.branch)
            after == LogAfter(last.branch)
            keys == {EntryKey(x) : x \in Elems(before) \cup Elems(last.batch)}
            all == merged(before, last.batch, 0)
            dropped == Len(all) - Len(after)
        IN /\ Len(after) = Min(last.maxItems, Cardinality(keys))
           /\ after = SubSeq(all, dropped + 1, Len(all))
           /\ \A i \in 1..dropped, j \in DOMAIN after :
                 EffectiveTime(all[i]) <= EffectiveTime(after[j])

-----------------------------------------------------------------------------
(* C5 *)

\* the commit SHA or at least one RunParams field of a and b differs
KeyComponentDiffers(a, b) ==
    \/ a.Commit.SHA # b.Commit.SHA
    \/ a.Params.CPU # b.Params.CPU
    \/ a.Params.GOOS # b.Params.GOOS
    \/ a.Params.GOARCH # b.Params.GOARCH
    \/ a.Params.GoVersion # b.Params.GoVersion
    \/ a.Params.CGO # b.Params.CGO

-----------------------------------------------------------------------------
(* C6 *)

\* the call failed reading or writing the catalog
CatalogFailed == last.err \in {"decoding branches file", "writing branches file"}

\* the catalog after an append under a release tag: the names it had plus
\* "releases" (unless the catalog could not be read or written), and the tag
\* itself only if it was there before
TagRegisteredAsReleases ==
    /\ ~CatalogFailed =>
          Elems(branches.names)
              = Elems(last.pre.branches.names) \cup {ReleasesVirtualBranch}
    /\ last.branch \in Elems(branches.names)
          => last.branch \in Elems(last.pre.branches.names)

\* C6 as stated: an append under a release tag, with any retention limit,
\* registers "releases" instead of the tag and leaves every entry of the
\* batch in the aggregate log.
C6_TagRoutingAnyLimit ==
    (Appended /\ Succeeded /\ IsSemanticVersionTag(last.branch)) =>
        /\ TagRegisteredAsReleases
        /\ \A e \in Elems(last.batch) : e \in Elems(LogAfter(ReleasesVirtualBranch))

\* C6 amended: an append under a release tag registers "releases" instead of
\* the tag (unless the catalog cannot be read or written); with retention limit 0 every entry of the batch is in the
\* aggregate log afterwards, with a limit N > 0 the aggregate log holds at
\* most N entries, each from the batch or from the earlier aggregate log.
C6_TagRouting ==
    (Appended /\ IsSemanticVersionTag(last.branch)) =>
        /\ TagRegisteredAsReleases
        /\ (Succeeded /\ last.maxItems = 0) =>
              \A e \in Elems(last.batch) : e \in Elems(LogAfter(ReleasesVirtualBranch))
        /\ (Succeeded /\ last.maxItems > 0) =>
              /\ Len(LogAfter(ReleasesVirtualBranch)) <= last.maxItems
              /\ Elems(LogAfter(ReleasesVirtualBranch))
                    \subseteq Elems(LogBefore(ReleasesVirtualBranch)) \cup Elems(last.batch)

\* a first append under a tag creates the catalog entry "releases" and the
\* aggregate log with the batch
C6_Witness ==
    /\ last.op = "AppendEntries" /\ Succeeded /\ last.maxItems = 0
    /\ last.branch = v100 /\ Len(last.batch) = 2
    /\ ~last.pre.branches.exists
    /\ branches.names = << ReleasesVirtualBranch >>
    /\ Elems(LogAfter(ReleasesVirtualBranch)) = Elems(last.batch)

-----------------------------------------------------------------------------
(* C7 *)

\* an earlier append under another release tag left an entry with this SHA
TaggedBeforeUnderOtherTag(sha) ==
    \E t1 \in names :
        /\ t1 # last.branch
        /\ IsSemanticVersionTag(t1)
        /\ \E old \in Elems(LogBefore(t1)) : old.Commit.SHA = sha

BatchSHAs == {e.Commit.SHA : e \in Elems(last.batch)}

-----------------------------------------------------------------------------
(* C8 *)

\* the file at p is the same before and after the call, or absent in both
FileUnchanged(p) ==
    IF p \in DOMAIN last.pre.files
    THEN p \in DOMAIN files /\ files[p] = last.pre.files[p]
    ELSE p \notin DOMAIN files

\* C8: an append under a name that is not a release tag leaves the aggregate
\* log file and the tag map file as they were.
C8_PlainBranchFrame ==
    (Appended /\ ~IsSemanticVersionTag(last.branch)) =>
        /\ FileUnchanged(branchDataPath(ReleasesVirtualBranch))
        /\ FileUnchanged(releaseTagsPath)

-----------------------------------------------------------------------------
(* C9 *)

\* C9: in a run of EnsureBranch, AppendEntry and AppendEntries calls from the
\* empty store, the catalog has no duplicate names, "releases" is first when
\* present, and the other names ascend in byte order.
C9_CatalogInvariant ==
    LET c == branches.names
    IN AppendOnly =>
       /\ \A i, j \in DOMAIN c : i # j => c[i] # c[j]
       /\ \A i \in DOMAIN c : c[i] = ReleasesVirtualBranch => i = 1
       /\ \A i \in 1..(Len(c) - 1) :
             c[i] # ReleasesVirtualBranch => StrLess(c[i], c[i + 1])

\* "releases" leads a catalog whose other names include ones that sort
\* before it and after it
C9_Witness ==
    /\ Len(branches.names) >= 4
    /\ branches.names[1] = ReleasesVirtualBranch
    /\ upperZ \in Elems(branches.names)
    /\ main \in Elems(branches.names)
    /\ v10 \in Elems(branches.names)

-----------------------------------------------------------------------------
(* C10 *)

\* the name EnsureBranch registers for branch
Resolved(branch) ==
    IF IsSemanticVersionTag(branch) THEN ReleasesVirtualBranch ELSE branch

\* C10: EnsureBranch returns false and changes nothing when the resolved name
\* is in the catalog; otherwise it returns true and the persisted catalog is
\* the earlier one with the resolved name inserted, in catalog order.  It
\* touches no file of data/.
C10_EnsureBranch ==
    (last.op = "EnsureBranch" /\ Succeeded) =>
        LET r == Resolved(last.branch)
            before == last.pre.branches
        IN /\ files = last.pre.files
           /\ IF r \in Elems(before.names)
              THEN ~last.added /\ branches = before
              ELSE /\ last.added
                   /\ branches.exists
                   /\ Len(branches.names) = Len(before.names) + 1
                   /\ Elems(branches.names) = Elems(before.names) \cup {r}
                   /\ \A i, j \in DOMAIN before.names :
                         i < j =>
                            \E k, l \in DOMAIN branches.names :
                                /\ k < l
                                /\ branches.names[k] = before.names[i]
                                /\ branches.names[l] = before.names[j]
                   /\ \A i \in DOMAIN branches.names :
                         branches.names[i] = r =>
                            /\ (r = ReleasesVirtualBranch => i = 1)
                            /\ (i > 1 /\ r # ReleasesVirtualBranch) =>
                                  \/ branches.names[i - 1] = ReleasesVirtualBranch
                                  \/ StrLess(branches.names[i - 1], r)
                            /\ (i < Len(branches.names) /\ r # ReleasesVirtualBranch) =>
                                  StrLess(r, branches.names[i + 1])

\* a second release tag finds "releases" registered by a first one
C10_Witness ==
    /\ last.op = "EnsureBranch" /\ Succeeded
    /\ last.branch = rc123 /\ ~last.added
    /\ last.pre.branches.names = << ReleasesVirtualBranch, main >>
    /\ v100 \notin Elems(branches.names)
    /\ branches = last.pre.branches

-----------------------------------------------------------------------------
(* C11 *)

\* the log an ordinary branch holds after AppendEntries(batch, maxItems) when
\* it held log before
OrdinaryBranchLog(log, batch, maxItems) ==
    LET st0 == WriteBranchData(EmptyStore, main, log).st
    IN ReadBranchData(AppendEntries(st0, main, batch, maxItems).st, main).v

\* C11: an append under a release tag leaves in the aggregate log, and in
\* the tag's own log, what an ordinary branch that held the earlier log would
\* hold after the same batch with the same retention limit; so after any
\* sequence of appends under release tags the aggregate log is the log of an
\* ordinary branch that received the same batches in the same order.
C11_AggregateAsOrdinaryBranch ==
    (Appended /\ Succeeded /\ IsSemanticVersionTag(last.branch)) =>
        /\ LogAfter(ReleasesVirtualBranch)
              = OrdinaryBranchLog(LogBefore(ReleasesVirtualBranch),
                                  last.batch, last.maxItems)
        /\ LogAfter(last.branch)
              = OrdinaryBranchLog(LogBefore(last.branch), last.batch, last.maxItems)

\* v1.0.0 brought aaa and bbb; v2.0.0 brings aaa again with retention limit
\* 1: the aggregate log is trimmed to bbb while the log of v2.0.0 holds aaa
C11_Witness ==
    /\ last.op = "AppendEntries" /\ Succeeded
    /\ last.branch = v200 /\ last.maxItems = 1 /\ last.batch = << eA100 >>
    /\ LogBefore(v100) = << eA100, eB >>
    /\ LogBefore(ReleasesVirtualBranch) = << eA100, eB >>
    /\ LogBefore(v200) = << >>
    /\ LogAfter(ReleasesVirtualBranch) = << eB >>
    /\ LogAfter(v200) = << eA100 >>

-----------------------------------------------------------------------------
(* C12 *)

\* C12: when an append of one entry replaces the one entry of the log that
\* has its key, and both have the same effective commit time, the incoming
\* entry is at the index the replaced one had - also when other entries of
\* the log have that effective commit time.
C12_ReplaceKeepsIndex ==
    (Appended /\ Succeeded /\ Len(last.batch) = 1) =>
        LET e == last.batch[1]
            before == LogBefore(last.branch)
            after == LogAfter(last.branch)
        IN \A i \in DOMAIN before :
               ( /\ WithKey(before, EntryKey(e)) = {i}
                 /\ EffectiveTime(before[i]) = EffectiveTime(e)
                 /\ Len(after) = Len(before) )
               => after[i] = e

-----------------------------------------------------------------------------
(* C13 *)

\* C13: when an append returns an error, the catalog, every file of data/
\* (branch logs, aggregate log, tag map) and the metadata are as they were
\* before the call.
C13_NoPartialCommit ==
    (Appended /\ ~Succeeded) => Store = last.pre

-----------------------------------------------------------------------------
(* C14 *)

\* the file exists and its decoder rejects the content
CatalogUndecodable(st) == st.branches.exists /\ st.branches.kind # "list"

LogUndecodable(st, branch) ==
    /\ branchDataPath(branch) \in DOMAIN st.files
    /\ st.files[branchDataPath(branch)].kind # "log"

TagMapUndecodable(st) ==
    /\ releaseTagsPath \in DOMAIN st.files
    /\ st.files[releaseTagsPath].kind # "tags"

\* the logs an append under branch loads
LogsLoaded(branch) ==
    IF IsSemanticVersionTag(branch) THEN {branch, ReleasesVirtualBranch}
    ELSE {branch}

\* C14: ReadBranches on an undecodable catalog and ReadBranchData on an
\* undecodable log return an error; an append of a non-empty batch returns
\* an error when the catalog, a log it loads or (under a release tag) the
\* tag map is undecodable, and leaves that file as it was.
C14_DecodeErrorsSurface ==
    /\ (last.op = "ReadBranches" /\ CatalogUndecodable(last.pre)) =>
          ~Succeeded /\ Store = last.pre
    /\ (last.op = "ReadBranchData" /\ LogUndecodable(last.pre, last.branch)) =>
          ~Succeeded /\ Store = last.pre
    /\ Appended =>
          /\ CatalogUndecodable(last.pre) =>
                ~Succeeded /\ branches = last.pre.branches
          /\ \A b \in LogsLoaded(last.branch) :
                LogUndecodable(last.pre, b) =>
                    ~Succeeded /\ FileUnchanged(branchDataPath(b))
          /\ (IsSemanticVersionTag(last.branch) /\ TagMapUndecodable(last.pre)) =>
                ~Succeeded /\ FileUnchanged(releaseTagsPath)

\* an append under v1.0.0 finds an undecodable aggregate log: it fails and
\* the aggregate log still holds the undecodable text
C14_Witness ==
    /\ last.op = "AppendEntries" /\ last.branch = v100 /\ last.batch = << eA100 >>
    /\ ~CatalogUndecodable(last.pre)
    /\ ~LogUndecodable(last.pre, v100)
    /\ LogUndecodable(last.pre, ReleasesVirtualBranch)
    /\ last.err = "decoding branch data"
    /\ files[branchDataPath(ReleasesVirtualBranch)] = GarbageFile

-----------------------------------------------------------------------------
(* C15 *)

\* C15: a read of a file that does not exist returns the empty value of its
\* type without an error - ReadBranchData the empty sequence, ReadBranches
\* the empty list, ReadMetadata the zero Metadata, readReleaseTags the empty
\* map - and leaves the store as it was.
C15_AbsenceIsNotAnError ==
    /\ (last.op = "ReadBranchData"
            /\ branchDataPath(last.branch) \notin DOMAIN last.pre.files) =>
          Succeeded /\ last.value = << >> /\ Store = last.pre
    /\ (last.op = "ReadBranches" /\ ~last.pre.branches.exists) =>
          Succeeded /\ last.value = << >> /\ Store = last.pre
    /\ (last.op = "ReadMetadata" /\ ~last.pre.metadata.exists) =>
          Succeeded /\ last.value = Metadata("", 0, "") /\ Store = last.pre
    /\ (last.op = "readReleaseTags"
            /\ releaseTagsPath \notin DOMAIN last.pre.files) =>
          Succeeded /\ DOMAIN last.value = {} /\ Store = last.pre

\* the log of v1.0.0 was written; main, which has no file, reads as empty
C15_Witness ==
    /\ last.op = "ReadBranchData" /\ last.branch = main
    /\ DOMAIN last.pre.files = {branchDataPath(v100)}
    /\ Succeeded /\ last.value = << >>
    /\ DOMAIN files = {branchDataPath(v100)}

-----------------------------------------------------------------------------
(* C16 *)

\* C16: AppendEntries with an empty batch returns no error and leaves the
\* catalog and every file of data/ as they were, for plain names and release
\* tags and for every retention limit.
C16_EmptyBatchIsNoOp ==
    (last.op = "AppendEntries" /\ last.batch = << >>) =>
        Succeeded /\ Store = last.pre

\* an empty batch under a release tag with a retention limit, on a store
\* whose catalog is undecodable: no error, nothing registered or written
C16_Witness ==
    /\ last.op = "AppendEntries" /\ last.batch = << >>
    /\ last.branch = v100 /\ last.maxItems = 2
    /\ CatalogUndecodable(last.pre)
    /\ Succeeded
    /\ DOMAIN files = {}

-----------------------------------------------------------------------------
(* C17 *)

\* C17: AppendEntry(branch, e, N) returns the error and leaves the store
\* that AppendEntries(branch, [e], N) returns and leaves on the same store.
C17_SingleAsBatch ==
    last.op = "AppendEntry" =>
        LET r == AppendEntries(last.pre, last.branch, last.batch, last.maxItems)
        IN /\ Len(last.batch) = 1
           /\ last.err = r.err
           /\ Store = r.st

\* AppendEntry of bbb under v2.0.0 with retention limit 1, after aaa under
\* v1.0.0: the aggregate log is trimmed to bbb and both SHAs are tagged
C17_Witness ==
    /\ last.op = "AppendEntry" /\ Succeeded
    /\ last.branch = v200 /\ last.maxItems = 1 /\ last.batch = << eB >>
    /\ LogBefore(ReleasesVirtualBranch) = << eA100 >>
    /\ LogAfter(ReleasesVirtualBranch) = << eB >>
    /\ LogAfter(v200) = << eB >>
    /\ TagsOf(Store) = [sha \in {"aaa", "bbb"} |-> IF sha = "aaa" THEN v100 ELSE v200]

-----------------------------------------------------------------------------
(* C20 *)

\* C20: after WriteBranchData(branch, entries), ReadBranchData(branch)
\* returns entries - the same entries in the same order, neither sorted nor
\* deduplicated nor trimmed - whatever the log held before; after
\* WriteBranches(list), ReadBranches returns list.
C20_WriteReadRoundTrip ==
    /\ (last.op = "WriteBranchData" /\ Succeeded) =>
          ReadBranchData(Store, last.branch) = [v |-> last.batch, err |-> "nil"]
    /\ (last.op = "WriteBranches" /\ Succeeded) =>
          ReadBranches(Store) = [v |-> last.list, err |-> "nil"]

\* over a log that held the entry with zero RunParams, two entries of one
\* key are written, the later commit first; they are read back as written
C20_Witness ==
    /\ last.op = "WriteBranchData" /\ Succeeded /\ last.branch = main
    /\ LogBefore(main) = << eEmptyParams >>
    /\ DOMAIN last.pre.files[branchDataPath(main)].entries[1].params = {"cgo"}
    /\ last.batch = << eA100, eA42 >>
    /\ LogAfter(main) = << eA100, eA42 >>

-----------------------------------------------------------------------------
(* C19 *)

\* name[a..b] is a non-empty run of digits
AllDigits(name, a, b) == a <= b /\ \A i \in a..b : IsDigit(name[i])

\* the indexes k such that name[1..k] is an optional "v" and three groups of
\* digits separated by dots
VersionEnds(name) ==
    LET o == IF Len(name) >= 1 /\ name[1] = "v" THEN 1 ELSE 0
    IN { k \in 1..Len(name) :
           \E i, j \in 1..(Len(name) - 1) :
               /\ AllDigits(name, o + 1, i)
               /\ name[i + 1] = "."
               /\ AllDigits(name, i + 2, j)
               /\ name[j + 1] = "."
               /\ AllDigits(name, j + 2, k) }

\* MAJOR.MINOR.PATCH with an optional "v", then nothing or a pre-release
\* ("-...") or build ("+...") suffix
VersionWithSuffix(name) ==
    \E k \in VersionEnds(name) : k = Len(name) \/ name[k + 1] \in {"-", "+"}

\* names that are no release tags
NotTags == {v1, v10, release10, ReleasesVirtualBranch, << >>, main, develop}

-----------------------------------------------------------------------------
(* C18 *)

\* invocations p and q appended non-empty batches to one branch and both
\* returned without an error
BothAppended(p, q) ==
    /\ p # q
    /\ procs[p].pc = "done" /\ procs[q].pc = "done"
    /\ procs[p].err = "nil" /\ procs[q].err = "nil"
    /\ procs[p].batch # << >> /\ procs[q].batch # << >>
    /\ procs[p].branch = procs[q].branch

\* the entries invocation w leaves in the log when it keeps all: what it
\* read without the entries of its batch's keys, and its batch
MergeOf(w) ==
    { e \in Elems(procs[w].read) :
        \A n \in Elems(procs[w].batch) : EntryKey(e) # EntryKey(n) }
        \cup Elems(procs[w].batch)

\* C18: when two concurrent invocations have appended to one branch without
\* an error, the log is the merge of ONE of them: what that invocation read,
\* with its batch (trimmed to its retention limit) - entries the other wrote
\* after that read are gone.
C18_LastWriterWins ==
    \A p, q \in DOMAIN procs :
        BothAppended(p, q) =>
            \E w \in {p, q} :
                LET log == LogAfter(procs[w].branch)
                IN IF procs[w].maxItems = 0
                   THEN Elems(log) = MergeOf(w)
                   ELSE /\ Elems(log) \subseteq MergeOf(w)
                        /\ Len(log) <= procs[w].maxItems

\* both invocations read the empty log of main before either wrote it; one
\* appended aaa, the other bbb, both keeping all; neither failed, and the log
\* holds bbb only
C18_Witness ==
    /\ BothAppended(1, 2)
    /\ procs[1].branch = main
    /\ procs[1].maxItems = 0 /\ procs[2].maxItems = 0
    /\ procs[1].batch = << eA100 >> /\ procs[2].batch = << eB >>
    /\ procs[1].read = << >> /\ procs[2].read = << >>
    /\ LogAfter(main) = << eB >>

-----------------------------------------------------------------------------
(* C21 *)

\* C21: after WriteMetadata(repoURL, goModule), ReadMetadata returns that
\* repoURL and goModule and the time of the write (> 0) as LastUpdate,
\* nothing of the Metadata stored before; the catalog and the files of data/
\* are as they were.
C21_MetadataReplaced ==
    (last.op = "WriteMetadata" /\ Succeeded) =>
        /\ ReadMetadata(Store) = [v |-> last.value, err |-> "nil"]
        /\ ReadMetadata(Store).v.LastUpdate > 0
        /\ branches = last.pre.branches
        /\ files = last.pre.files

\* metadata with a module is overwritten by metadata without one: the file
\* has no goModule key any more and ReadMetadata returns ""
C21_Witness ==
    /\ last.op = "WriteMetadata" /\ Succeeded
    /\ ReadMetadata(last.pre).v = Metadata("https://github.com/example/repo", 1000,
                                          "github.com/example/repo")
    /\ last.value = Metadata("https://github.com/example/repo", 2000, "")
    /\ DOMAIN metadata.json = {"repoUrl", "lastUpdate"}
    /\ ReadMetadata(Store).v.GoModule = ""

-----------------------------------------------------------------------------
(* C22 *)

\* C22: in a run of EnsureBranch, AppendEntry and AppendEntries calls from the
\* empty store, every entry of every branch log and of the aggregate log has
\* a non-empty commit SHA.
C22_NonEmptySHA ==
    AppendOnly =>
        \A b \in names \cup {ReleasesVirtualBranch} :
            \A e \in Elems(ReadBranchData(Store, b).v) : e.Commit.SHA # ""

-----------------------------------------------------------------------------
(* C23 *)

\* C23: in a run of EnsureBranch, AppendEntry and AppendEntries calls, a
\* successful append under a name that is no release tag leaves the log in
\* the file named by the sanitised name and the original name in the catalog,
\* and ReadBranchData with a name that is no release tag returns exactly the
\* entries appended under that name: none for a name never appended under
\* (a name the catalog does not hold).
C23_SanitisedFileOnly ==
    AppendOnly =>
        /\ (Appended /\ Succeeded /\ ~IsSemanticVersionTag(last.branch)) =>
               /\ sanitizeBranchName(last.branch) \in DOMAIN files
               /\ SeqHas(ReadBranches(Store).v, last.branch)
        /\ \A b \in names :
               (~IsSemanticVersionTag(b) /\ ~SeqHas(ReadBranches(Store).v, b)) =>
                   ReadBranchData(Store, b).v = << >>

-----------------------------------------------------------------------------
(* C24 *)

\* C24: in a run of EnsureBranch, AppendEntry and AppendEntries calls, an
\* append under the name A leaves ReadBranchData(B) as it was for every other
\* name B (the aggregate log excepted when A is a release tag), and adds to
\* the log of A no entry but those of its batch.
C24_BranchIsolation ==
    (AppendOnly /\ Appended) =>
        /\ \A b \in names \cup {ReleasesVirtualBranch} :
               (/\ b # last.branch
                /\ ~(b = ReleasesVirtualBranch /\ IsSemanticVersionTag(last.branch)))
                   => LogAfter(b) = LogBefore(b)
        /\ Elems(LogAfter(last.branch)) \subseteq
               Elems(LogBefore(last.branch)) \cup Elems(last.batch)

-----------------------------------------------------------------------------
(* C25 *)

\* the store after AppendEntry(branch, es[1], maxItems); ...;
\* AppendEntry(branch, es[Len(es)], maxItems) on st
RECURSIVE AppendEach(_, _, _, _)
AppendEach(st, branch, es, maxItems) ==
    IF es = << >> THEN st
    ELSE AppendEach(AppendEntry(st, branch, Head(es), maxItems).st, branch,
                    Tail(es), maxItems)

\* C25: a successful AppendEntries(branch, [e1..ek], N) leaves the store on
\* disk as the calls AppendEntry(branch, e1, N); ...; AppendEntry(branch, ek, N)
\* in that order would, also for a batch with several entries of one EntryKey
\* or of one commit time.
C25_BatchAsSingles ==
    (last.op = "AppendEntries" /\ Succeeded) =>
        Store = AppendEach(last.pre, last.branch, last.batch, last.maxItems)

-----------------------------------------------------------------------------
(* C26 *)

\* the entries of log whose EntryKey does not occur in batch, in their order
Unrelated(log, batch) ==
    SelectSeq(log, LAMBDA e : \A i \in DOMAIN batch : EntryKey(e) # EntryKey(batch[i]))

\* s without its first k entries
DropFirst(s, k) == SubSeq(s, k + 1, Len(s))

\* C26: in a run of EnsureBranch, AppendEntry and AppendEntries calls, a
\* successful append removes from the log of its branch exactly the entries
\* whose EntryKey occurs in the batch: the entries of other keys are afterwards
\* those of before, with the same content and in the same order, all of them
\* when the retention limit drops nothing and else without some of the first.
C26_UnrelatedUntouched ==
    (AppendOnly /\ Appended /\ Succeeded) =>
        LET before == Unrelated(LogBefore(last.branch), last.batch)
            after == Unrelated(LogAfter(last.branch), last.batch)
            untrimmed == \/ last.maxItems = 0
                         \/ Len(before) + Len(last.batch) <= last.maxItems
        IN /\ \E k \in 0..Len(before) : after = DropFirst(before, k)
           /\ untrimmed => after = before

-----------------------------------------------------------------------------
(* C27 *)

\* the entries of es have pairwise distinct EntryKeys and pairwise distinct
\* commit dates, all parseable
DistinctKeysAndDates(es) ==
    /\ \A e \in es : ParseRFC3339(e.Commit.Date).ok
    /\ \A e, f \in es :
           e # f => /\ EntryKey(e) # EntryKey(f)
                    /\ ParseRFC3339(e.Commit.Date).ms # ParseRFC3339(f.Commit.Date).ms

\* the entries of es in ascending order of commit date
ByCommitDate(es) ==
    CHOOSE l \in Orders(es) :
        \A i, j \in DOMAIN l :
            i < j => ParseRFC3339(l[i].Commit.Date).ms < ParseRFC3339(l[j].Commit.Date).ms

\* the loop has appended every entry of its list
LoopDone == budget = 0 /\ procs[1].pc = "done" /\ procs[1].err = "nil"

\* C27: when entries with pairwise distinct EntryKeys and pairwise distinct
\* parseable commit dates have been appended one at a time with one retention
\* limit, in whatever order, the log holds them in ascending order of commit
\* date, cut to the latest maxItems of them when maxItems > 0: the same log
\* for every order of arrival.
C27_ArrivalOrderIndependent ==
    (LoopDone /\ DistinctKeysAndDates(pool)) =>
        LogAfter(main) = Trim(ByCommitDate(pool), procs[1].maxItems)

\* the test's order of arrival (latest, earliest, middle), with a retention
\* limit that drops the earliest entry
C27_Witness ==
    /\ LoopDone
    /\ procs[1].batch = << eB, eBackfill, eA100 >>
    /\ procs[1].maxItems = 2
    /\ LogAfter(main) = << eA100, eB >>

-----------------------------------------------------------------------------
(* C28 *)

\* the last call sorted its batch of two entries, of which exactly one has a
\* parseable commit date, into an empty log without trimming: the sort
\* compared the second entry with the first, once
SortedMixedPair ==
    /\ last.op = "AppendEntries" /\ Succeeded
    /\ LogBefore(last.branch) = << >>
    /\ Len(last.batch) = 2
    /\ last.maxItems = 0
    /\ ParseRFC3339(last.batch[1].Commit.Date).ok
           # ParseRFC3339(last.batch[2].Commit.Date).ok

\* C28: when the commit date of only one of two compared entries parses, the
\* sort compares the effective commit times of the two (the parsed date of
\* the one, the Date field of the other): the second entry of the batch
\* comes first in the log exactly if its effective commit time is the earlier.
C28_OwnBestValue ==
    (AppendOnly /\ SortedMixedPair) =>
        (LogAfter(last.branch) = << last.batch[2], last.batch[1] >>
            <=> EffectiveTime(last.batch[2]) < EffectiveTime(last.batch[1]))

-----------------------------------------------------------------------------
(* C29 *)

\* C29: in a run of EnsureBranch, AppendEntry and AppendEntries calls, after
\* a successful append no entry of the branch log with a parseable commit
\* date stands before one whose commit date does not parse.
C29_UnparseableFirst ==
    (AppendOnly /\ Appended /\ Succeeded) =>
        LET after == LogAfter(last.branch)
        IN \A i, j \in DOMAIN after :
               (i < j /\ ParseRFC3339(after[i].Commit.Date).ok)
                   => ParseRFC3339(after[j].Commit.Date).ok

-----------------------------------------------------------------------------
(* C30 *)

\* C30: after a successful AppendEntries call, the same call once more
\* succeeds and leaves the catalog, every log and the tag map as they are.
C30_Idempotent ==
    (last.op = "AppendEntries" /\ Succeeded) =>
        AppendEntries(Store, last.branch, last.batch, last.maxItems)
            = [st |-> Store, err |-> "nil"]

-----------------------------------------------------------------------------
(* C31 *)

\* C31: after a successful append of a non-empty batch with retention limit
\* N > 0 the branch log holds at most N entries, and so does the aggregate
\* log when the branch is a release tag.
C31_RetentionBound ==
    (Appended /\ Succeeded /\ last.maxItems > 0) =>
        /\ Len(LogAfter(last.branch)) <= last.maxItems
        /\ IsSemanticVersionTag(last.branch) =>
               Len(LogAfter(ReleasesVirtualBranch)) <= last.maxItems

\* under a second tag an entry older than the one the aggregate log holds is
\* appended with limit 1: the tag's log keeps it, the aggregate log does not
C31_Witness ==
    /\ last.op = "AppendEntries" /\ Succeeded
    /\ last.branch = v200 /\ last.batch = << eA100 >> /\ last.maxItems = 1
    /\ LogBefore(ReleasesVirtualBranch) = << eB >>
    /\ LogAfter(ReleasesVirtualBranch) = << eB >>
    /\ LogAfter(v200) = << eA100 >>

-----------------------------------------------------------------------------
(* C32 *)

\* the steps of AppendEntries that follow the registration in the catalog
PastRegistration ==
    {"ReadBranchData", "WriteBranchData", "readReleaseTags", "writeReleaseTags"}

\* the data file of branch exists
HasLog(branch) == branchDataPath(branch) \in DOMAIN files

\* C32: at every step of an invocation of AppendEntries, and after its end
\* by return, error or kill: the resolved name is in the catalog before the
\* invocation reads or writes a log; the aggregate log is written when the
\* tag's own log is on disk, the tag map when the aggregate log is; and every
\* log file on disk has its resolved name (the branch name, "releases" for a
\* tag) in the catalog.
C32_WriteOrder ==
    /\ procs[1].pc \in PastRegistration =>
           SeqHas(branches.names, Resolved(procs[1].branch))
    /\ (procs[1].pc \in PastRegistration
            /\ procs[1].target = ReleasesVirtualBranch
            /\ procs[1].branch # ReleasesVirtualBranch) => HasLog(procs[1].branch)
    /\ procs[1].pc \in {"readReleaseTags", "writeReleaseTags"} =>
           HasLog(ReleasesVirtualBranch)
    /\ \A b \in names \cup {ReleasesVirtualBranch} :
           HasLog(b) => SeqHas(branches.names, Resolved(b))
    /\ HasLog(ReleasesVirtualBranch) =>
           \E b \in names : IsSemanticVersionTag(b) /\ HasLog(b)
    /\ releaseTagsPath \in DOMAIN files => HasLog(ReleasesVirtualBranch)

\* an invocation under a tag was killed after it wrote the tag's own log:
\* "releases" is in the catalog, the aggregate log and the tag map are not
\* written yet
C32_Witness ==
    /\ procs[1].pc = "killed"
    /\ procs[1].branch = v100 /\ procs[1].batch = << eA100 >>
    /\ procs[1].target = ReleasesVirtualBranch
    /\ branches.names = << ReleasesVirtualBranch >>
    /\ LogAfter(v100) = << eA100 >>
    /\ ~HasLog(ReleasesVirtualBranch)
    /\ releaseTagsPath \notin DOMAIN files

-----------------------------------------------------------------------------
(* C33 *)

\* no call of the run has failed: the calls of EnsureBranch, AppendEntry and
\* AppendEntries fail only on a tag map or a log that does not decode, and
\* such a file stays as it is
AllSucceeded ==
    /\ AppendOnly
    /\ readReleaseTags(Store).err = "nil"
    /\ \A b \in names : ReadBranchData(Store, b).err = "nil"

\* C33: in a run of successful EnsureBranch, AppendEntry and AppendEntries
\* calls from the empty store, every entry of the aggregate log with a
\* non-empty commit SHA has its SHA in the tag map, mapped to a release tag
\* of the run.
C33_TagLabelsCoverAggregate ==
    AllSucceeded =>
        \A e \in Elems(ReadBranchData(Store, ReleasesVirtualBranch).v) :
            e.Commit.SHA # "" =>
                /\ e.Commit.SHA \in DOMAIN TagsOf(Store)
                /\ TagsOf(Store)[e.Commit.SHA] \in names
                /\ IsSemanticVersionTag(TagsOf(Store)[e.Commit.SHA])

-----------------------------------------------------------------------------
(* C34 *)

\* both invocations have returned without error
BothDone == \A p \in Writers : procs[p].pc = "done" /\ procs[p].err = "nil"

\* the log of branch holds every entry of batch
HoldsBatch(branch, batch) ==
    Elems(batch) \subseteq Elems(ReadBranchData(Store, branch).v)

\* C34: when two concurrent invocations of AppendEntries on two different
\* branch names that are no release tags, with non-empty batches, have both
\* returned without error, the catalog holds both names and the log of each
\* branch holds its batch.
C34_DifferentBranches ==
    (/\ BothDone
     /\ procs[1].branch # procs[2].branch
     /\ \A p \in Writers : /\ ~IsSemanticVersionTag(procs[p].branch)
                            /\ procs[p].batch # << >>
                            /\ procs[p].maxItems = 0) =>
        \A p \in Writers :
            /\ SeqHas(branches.names, procs[p].branch)
            /\ HoldsBatch(procs[p].branch, procs[p].batch)

-----------------------------------------------------------------------------
(* C35 *)

\* the entries of the two batches have pairwise distinct EntryKeys
DisjointBatches ==
    LET all == procs[1].batch \o procs[2].batch
    IN \A i, j \in DOMAIN all : i # j => EntryKey(all[i]) # EntryKey(all[j])

\* C35: when two concurrent invocations of AppendEntries on two different
\* release tags, with retention limit 0 and non-empty batches of pairwise
\* distinct EntryKeys, have both returned without error, the aggregate log
\* holds the entries of both batches and the tag map maps the SHAs of both
\* batches to their tags.
C35_DifferentTags ==
    (/\ BothDone
     /\ procs[1].branch # procs[2].branch
     /\ DisjointBatches
     /\ \A p \in Writers : /\ IsSemanticVersionTag(procs[p].branch)
                            /\ procs[p].batch # << >>
                            /\ procs[p].maxItems = 0) =>
        \A p \in Writers :
            /\ HoldsBatch(ReleasesVirtualBranch, procs[p].batch)
            /\ \A e \in Elems(procs[p].batch) :
                   /\ e.Commit.SHA \in DOMAIN TagsOf(Store)
                   /\ TagsOf(Store)[e.Commit.SHA] = procs[p].branch

====
